---- MODULE Spec2Model ----
(***************************************************************************)
(* The memory-budget-aware telemetry collector of src/monitoring.rs:       *)
(* SystemMonitor (behind one Mutex), its refresh pass, the background      *)
(* worker of init_monitoring and the two query endpoints; and the port     *)
(* search of src/utils.rs that main runs before it starts the server.      *)
(*                                                                         *)
(* Time is counted in ticks of 500 ms (the worker's initial delay); memory *)
(* is counted in MiB.  All thresholds of the code are integer expressions  *)
(* on bytes that are exact multiples of a MiB for the default limits.      *)
(***************************************************************************)
EXTENDS Integers, Sequences, FiniteSets, TLC

VARIABLES
    platform,        \* what the OS telemetry provider of this host can report
    now,             \* the monotonic clock (Instant::now), in ticks
    monitor,         \* the SystemMonitor inside Arc<Mutex<..>>
    poisoned,        \* the Mutex's poison flag
    REFRESH_COUNTER, \* the function-local `static mut` of refresh
    worker,          \* the background thread: pc, sleep_duration, wake_at, the stop
                     \* flag it shares with MonitoringData, its last lock attempt
    last_op,         \* observation: the operation that acted last
    resp,            \* observation: the last answer of get_system_stats
    pushes,          \* observation: push_back calls on each history buffer
    pass,            \* observation: what the last executed refresh pass did
    report,          \* observation: the answer of get_memory_status, if it acted last
    port             \* utils.rs: a call of find_available_port and its result

vars == <<platform, now, monitor, poisoned, REFRESH_COUNTER, worker, last_op, resp,
          pushes, pass, report, port>>

----------------------------------------------------------------------------
(* Bounds of the model *)

MaxTime == 13      \* the clock stops here
MaxCycle == 3      \* at most this many executed refreshes
cpu_history_size == 2     \* 60 in the code; small, so that pushed samples get evicted
memory_history_size == 2  \* 30 in the code
PollMaxTime == 23  \* the clock of a run with a polling client stops here
PollMaxCycle == 11 \* at most this many executed refreshes in such a run
MaxAttempts == 3   \* find_available_port is called with Some(0) .. Some(MaxAttempts)
WorkerMaxTime == 95  \* the clock of a run left to the worker stops here
LateFrom == 59     \* in such a run a client calls only from this instant ...
LateUntil == 62    \* ... to this one
StopMaxTime == 35  \* the clock of a run in which the owner stops the worker stops here
RetryMaxTime == 13 \* the clock stops here for as long as the lock is sound
MaxUsed == 256     \* memory readings of 0 .. MaxUsed MiB are tried against the policies

----------------------------------------------------------------------------
(* Program constants *)

Secs(n) == 2 * n           \* Duration::from_secs(n) in ticks
InitialDelay == 1          \* Duration::from_millis(500)
MB == 1
DEFAULT_MIN_MEMORY == 50 * MB
DEFAULT_MAX_MEMORY == 200 * MB
update_interval == Secs(1)
memory_limit_min == DEFAULT_MIN_MEMORY
memory_limit_max == DEFAULT_MAX_MEMORY

----------------------------------------------------------------------------
(* Values *)

None == [some |-> FALSE, v |-> 0]
Some(x) == [some |-> TRUE, v |-> x]

\* f32 percentage a / b * 100.0: NaN for 0/0, +inf for a/0, else the integer part
Percent(a, b) ==
    IF b = 0 THEN (IF a = 0 THEN [k |-> "NaN", v |-> 0] ELSE [k |-> "inf", v |-> 0])
    ELSE [k |-> "num", v |-> (a * 100) \div b]

Zero == [k |-> "num", v |-> 0]

EpochSecs(t) == t \div 2     \* SystemTime::now() ... as_secs()

SystemStatsDefault(t) ==
    [ timestamp            |-> EpochSecs(t),
      cpu_usage            |-> 0,
      memory_total         |-> 0,
      memory_used          |-> 0,
      memory_usage_percent |-> Zero,
      disk_total           |-> 0,
      disk_free            |-> 0,
      disk_usage_percent   |-> Zero,
      network_received     |-> 0,
      network_transmitted  |-> 0,
      uptime               |-> 0,
      system_load          |-> <<0, 0, 0>>,
      cpu_temp             |-> None,
      processes_count      |-> 0,
      hostname             |-> "",
      memory_within_bounds |-> TRUE ]

\* System::new_with_specifics(kind): memory is read at creation, no inventory yet
NewSystem(kind, id, used, total) ==
    [ id |-> id, kind |-> kind, used_memory |-> used, total_memory |-> total,
      components |-> <<>> ]

Repeat(x, n) == [i \in 1..n |-> x]

SystemMonitorNew(t, used, total) ==
    [ system              |-> NewSystem("memory+cpu", 0, used, total),
      stats               |-> SystemStatsDefault(t),
      active              |-> TRUE,
      update_interval     |-> update_interval,
      last_update         |-> t,
      cpu_history         |-> Repeat(0, cpu_history_size),
      memory_history      |-> Repeat(0, memory_history_size),
      cycle_count         |-> 0,
      memory_limit_min    |-> memory_limit_min,
      memory_limit_max    |-> memory_limit_max,
      resource_level      |-> 2,
      last_memory_cleanup |-> t ]

----------------------------------------------------------------------------
(* The readings the provider can return during one refresh pass *)

Readings(p) ==
    [ cpu : p.cpu, total : p.total, used : p.used, post : p.post, disks : p.disks,
      nets : p.nets, comps : p.comps, procs : p.procs, host : p.host, load : p.load ]

----------------------------------------------------------------------------
(* SystemMonitor::refresh, piece by piece *)

\* the comparison of line 185 turned around
Throttled_Inverted(m, t) == t - m.last_update > m.update_interval

\* the early return of line 185
Throttled(m, t) == t - m.last_update < m.update_interval

\* the counter cycling 0..1
NextCounter_Two(c) == (c + 1) % 2

\* lines 194-197
NextCounter(c) == (c + 1) % 3

\* the counter advanced by two
NextCycle_Two(n) == n + 2

\* line 412
NextCycle(n) == n + 1

\* lines 209-215
CpuUsage(m, rd) == IF m.resource_level >= 1 THEN rd.cpu ELSE m.stats.cpu_usage

\* push_back without pop_front
PushHistory_NoPop(h, x) == Append(h, x)

\* pop_back, push_front
PushHistory_Front(h, x) == <<x>> \o SubSeq(h, 1, Len(h) - 1)

\* pop_front, push_back (lines 218-219 and 286-287)
PushHistory(h, x) == Append(Tail(h), x)

\* the second band starts at 90% of the limit, as in the worker's loop
BreadthLevel_90(m, memory_used) ==
    IF memory_used > m.memory_limit_max THEN 0
    ELSE IF memory_used > (m.memory_limit_max * 90) \div 100 THEN 1
    ELSE IF memory_used < m.memory_limit_min THEN 2
    ELSE 2

\* the level the pass found on entry kept
BreadthLevel_Kept(m, memory_used) == m.resource_level

\* lines 227-241: the sampling-breadth level
BreadthLevel(m, memory_used) ==
    IF memory_used > m.memory_limit_max THEN 0
    ELSE IF memory_used > (m.memory_limit_max * 80) \div 100 THEN 1
    ELSE IF memory_used < m.memory_limit_min THEN 2
    ELSE 2

\* lines 230 and 234: the branches of the level that write to stdout
LevelPrints(m, memory_used) == memory_used > (m.memory_limit_max * 80) \div 100

\* `>=` for `>` in the comparison with the interval
CleanupDue_NonStrict(m, t, memory_used) ==
    \/ t - m.last_memory_cleanup >= (IF memory_used > m.memory_limit_max
                                     THEN Secs(10) ELSE Secs(30))
    \/ memory_used > m.memory_limit_max

\* lines 245-250
CleanupInterval(m, memory_used) ==
    IF memory_used > m.memory_limit_max THEN Secs(10) ELSE Secs(30)

\* line 252
CleanupDue(m, t, memory_used) ==
    \/ t - m.last_memory_cleanup > CleanupInterval(m, memory_used)
    \/ memory_used > m.memory_limit_max

\* lines 261-265
RefreshKindFor(level) == IF level = 0 THEN "memory" ELSE "memory+cpu"

RECURSIVE SumField(_, _, _)
SumField(s, f, limit) ==
    IF s = <<>> \/ limit = 0 THEN 0
    ELSE Head(s)[f] + SumField(Tail(s), f, limit - 1)

Unlimited == 1000   \* usize::MAX as a number of list entries

SaturatingSub(a, b) == IF a >= b THEN a - b ELSE 0

\* `>= 2` of line 291 dropped: every level refreshes the disks every 5 cycles
DiskGate_AnyLevel(level, cycle_count) ==
    \/ cycle_count % 5 = 0
    \/ level = 1 /\ cycle_count % 10 = 0

\* level 1 on the 5-cycle period of level 2
DiskGate_Every5(level, cycle_count) ==
    \/ level >= 2 /\ cycle_count % 5 = 0
    \/ level = 1 /\ cycle_count % 5 = 0

\* lines 290-293
DiskGate(level, cycle_count) ==
    \/ level >= 2 /\ cycle_count % 5 = 0
    \/ level = 1 /\ cycle_count % 10 = 0

\* lines 290-314
DiskStats(m, level, rd) ==
    IF DiskGate(level, m.cycle_count)
    THEN LET disk_limit == IF level >= 2 THEN Unlimited ELSE 2
             total == SumField(rd.disks, "total", disk_limit)
             free  == SumField(rd.disks, "free", disk_limit)
             used  == SaturatingSub(total, free)
         IN  [ total |-> total, free |-> free,
               percent |-> IF total > 0 THEN Percent(used, total) ELSE Zero ]
    ELSE [ total |-> m.stats.disk_total, free |-> m.stats.disk_free,
           percent |-> m.stats.disk_usage_percent ]

\* level 2 on the 3-cycle period of level 3
NetGate_Every3(level, cycle_count) ==
    \/ level >= 3 /\ cycle_count % 3 = 0
    \/ level = 2 /\ cycle_count % 3 = 0

\* lines 317-319
NetGate(level, cycle_count) ==
    \/ level >= 3 /\ cycle_count % 3 = 0
    \/ level = 2 /\ cycle_count % 8 = 0

\* lines 317-340
NetStats(m, level, rd) ==
    IF NetGate(level, m.cycle_count)
    THEN LET net_limit == IF level >= 3 THEN Unlimited ELSE 2
         IN  [ received    |-> SumField(rd.nets, "rx", net_limit),
               transmitted |-> SumField(rd.nets, "tx", net_limit) ]
    ELSE [ received |-> m.stats.network_received,
           transmitted |-> m.stats.network_transmitted ]

\* `>= 1` for `>= 2`
TempGate_Level1(level, cycle_count) == level >= 1 /\ cycle_count % 10 = 0

\* line 353
TempGate(level, cycle_count) == level >= 2 /\ cycle_count % 10 = 0

\* component.label().contains("CPU")
ContainsCPU(label) == label \in {"CPU", "CPU die"}

RECURSIVE FirstCpuTemp(_)
FirstCpuTemp(comps) ==
    IF comps = <<>> THEN 0
    ELSE IF ContainsCPU(Head(comps).label)
         THEN (IF Head(comps).temperature > 0 THEN Head(comps).temperature ELSE 0)
         ELSE FirstCpuTemp(Tail(comps))

\* refresh_components(): new values for the components the handle already lists
RefreshComponents(listed, rd) == IF listed = <<>> THEN <<>> ELSE rd.comps

\* lines 353-368
CpuTemp(m, level, listed, rd) ==
    IF TempGate(level, m.cycle_count)
    THEN Some(FirstCpuTemp(RefreshComponents(listed, rd)))
    ELSE m.stats.cpu_temp

\* lines 371-378
ProcessesCount(m, counter, rd) ==
    IF counter = 0 THEN rd.procs ELSE m.stats.processes_count

\* lines 381-385
Hostname(m, rd) ==
    IF m.stats.hostname = ""
    THEN (IF rd.host.some THEN rd.host.v ELSE "Unknown")
    ELSE m.stats.hostname

\* line 407
WithinBounds(m, memory_used) ==
    memory_used >= m.memory_limit_min /\ memory_used <= m.memory_limit_max

\* lines 190-281 of an executed pass: everything up to the memory-history push
RefreshHead(m, c, t, rd) ==
    LET counter == NextCounter(c)
        listed0 == IF counter = 0 THEN rd.comps ELSE m.system.components
        level   == BreadthLevel(m, rd.used)
        due     == CleanupDue(m, t, rd.used)
        sys0    == [m.system EXCEPT !.used_memory = rd.used, !.total_memory = rd.total,
                                    !.components = listed0]
        sys1    == IF due
                   THEN NewSystem(RefreshKindFor(level), m.system.id + 1, rd.post, rd.total)
                   ELSE sys0
    IN  [ counter   |-> counter,
          cpu_usage |-> CpuUsage(m, rd),
          level     |-> level,
          monitor   |-> [m EXCEPT !.system = sys1,
                                  !.cpu_history = PushHistory(@, CpuUsage(m, rd)),
                                  !.resource_level = level,
                                  !.last_memory_cleanup = IF due THEN t ELSE @] ]

\* what a pass that returned early did
Nothing ==
    [ level |-> 0, rescan |-> FALSE, disk |-> FALSE, net |-> FALSE, temp |-> FALSE,
      cpu_read |-> 0 ]

\* lines 177-413; `did` tells which branches the pass took: the level of lines
\* 227-241, the rescan of lines 198-206, the branches of lines 291, 317 and 353, and
\* the CPU load the provider had after the refresh_cpu of line 190
Refresh(m, c, t, rd) ==
    IF ~m.active \/ Throttled(m, t)
    THEN [ monitor |-> m, counter |-> c, executed |-> FALSE, did |-> Nothing ]
    ELSE
    LET h      == RefreshHead(m, c, t, rd)
        m1     == h.monitor
        disk   == DiskStats(m, h.level, rd)
        net    == NetStats(m, h.level, rd)
        listed == IF TempGate(h.level, m.cycle_count)
                  THEN RefreshComponents(m1.system.components, rd)
                  ELSE m1.system.components
        stats  ==
            [ timestamp            |-> EpochSecs(t),
              cpu_usage            |-> h.cpu_usage,
              memory_total         |-> rd.total,
              memory_used          |-> rd.used,
              memory_usage_percent |-> Percent(rd.used, rd.total),
              disk_total           |-> disk.total,
              disk_free            |-> disk.free,
              disk_usage_percent   |-> disk.percent,
              network_received     |-> net.received,
              network_transmitted  |-> net.transmitted,
              uptime               |-> EpochSecs(t),   \* the host booted at time 0
              system_load          |-> rd.load,
              cpu_temp             |-> CpuTemp(m, h.level, m1.system.components, rd),
              processes_count      |-> ProcessesCount(m, h.counter, rd),
              hostname             |-> Hostname(m, rd),
              memory_within_bounds |-> WithinBounds(m, rd.used) ]
    IN  [ monitor  |-> [m1 EXCEPT !.system.components = listed,
                                  !.memory_history = PushHistory(@, rd.used),
                                  !.stats = stats,
                                  !.last_update = t,
                                  !.cycle_count = NextCycle(@)],
          counter  |-> h.counter,
          executed |-> TRUE,
          did      |-> [ level    |-> h.level,
                         rescan   |-> h.counter = 0,
                         disk     |-> DiskGate(h.level, m.cycle_count),
                         net      |-> NetGate(h.level, m.cycle_count),
                         temp     |-> TempGate(h.level, m.cycle_count),
                         cpu_read |-> rd.cpu ] ]

----------------------------------------------------------------------------
(* init_monitoring: the worker's loop *)

\* the second band starts at 80% of the limit, as in refresh, instead of 90%
LoopCadence_80(m, memory_used) ==
    IF memory_used > m.memory_limit_max
    THEN [ sleep |-> Secs(20), level |-> 0 ]
    ELSE IF memory_used > (m.memory_limit_max * 80) \div 100
    THEN [ sleep |-> Secs(10), level |-> 1 ]
    ELSE IF memory_used < m.memory_limit_min
    THEN [ sleep |-> Secs(3), level |-> 2 ]
    ELSE IF memory_used < m.memory_limit_min
                          + (m.memory_limit_max - m.memory_limit_min) \div 2
    THEN [ sleep |-> Secs(5), level |-> 2 ]
    ELSE [ sleep |-> Secs(8), level |-> 1 ]

\* `<=` for `<` at the middle of the target range (line 522)
LoopCadence_MidInclusive(m, memory_used) ==
    IF memory_used > m.memory_limit_max
    THEN [ sleep |-> Secs(20), level |-> 0 ]
    ELSE IF memory_used > (m.memory_limit_max * 90) \div 100
    THEN [ sleep |-> Secs(10), level |-> 1 ]
    ELSE IF memory_used < m.memory_limit_min
    THEN [ sleep |-> Secs(3), level |-> 2 ]
    ELSE IF memory_used <= m.memory_limit_min
                          + (m.memory_limit_max - m.memory_limit_min) \div 2
    THEN [ sleep |-> Secs(5), level |-> 2 ]
    ELSE [ sleep |-> Secs(8), level |-> 1 ]

\* lines 479-531: the loop-cadence policy
LoopCadence(m, memory_used) ==
    IF memory_used > m.memory_limit_max
    THEN [ sleep |-> Secs(20), level |-> 0 ]
    ELSE IF memory_used > (m.memory_limit_max * 90) \div 100
    THEN [ sleep |-> Secs(10), level |-> 1 ]
    ELSE IF memory_used < m.memory_limit_min
    THEN [ sleep |-> Secs(3), level |-> 2 ]
    ELSE IF memory_used < m.memory_limit_min
                          + (m.memory_limit_max - m.memory_limit_min) \div 2
    THEN [ sleep |-> Secs(5), level |-> 2 ]
    ELSE [ sleep |-> Secs(8), level |-> 1 ]

\* the duration chosen before the failed lock() kept
NextSleep_Kept(refresh_success, sleep_duration) == sleep_duration

\* lines 544-546: a failed lock() shortens the sleep to one second
NextSleep(refresh_success, sleep_duration) ==
    IF ~refresh_success THEN Secs(1) ELSE sleep_duration

\* lines 479-531 applied to the locked monitor after refresh returned `stats`
Govern(m, stats, rd) ==
    LET g == LoopCadence(m, stats.memory_used)
    IN  [m EXCEPT !.resource_level = g.level,
                  !.system = IF stats.memory_used > m.memory_limit_max
                             THEN NewSystem("memory+cpu", @.id + 1, rd.post, rd.total)
                             ELSE @]

----------------------------------------------------------------------------
(* The hosts the collector is run on: the values their provider can report *)

Disk(total, free) == [total |-> total, free |-> free]
Net(rx, tx) == [rx |-> rx, tx |-> tx]
Sensor(label, temperature) == [label |-> label, temperature |-> temperature]

Quiet ==
    [ cpu   |-> {7},
      total |-> {1024},
      used  |-> {100},
      post  |-> {90},
      disks |-> {<<Disk(100, 40)>>},
      nets  |-> {<<Net(5, 3)>>},
      comps |-> {<<>>},
      procs |-> {12},
      host  |-> {Some("alpha")},
      load  |-> {<<1, 1, 1>>} ]

Platforms ==
    { \* memory below and at the lower limit
      [Quiet EXCEPT !.used = {30, 49, 50}],
      \* memory around the middle of the target range
      [Quiet EXCEPT !.used = {124, 125}],
      \* memory around 80% of the upper limit
      [Quiet EXCEPT !.used = {160, 161}],
      \* memory around 90% of the upper limit
      [Quiet EXCEPT !.used = {180, 181, 190}],
      \* memory at and above the upper limit
      [Quiet EXCEPT !.used = {200, 201, 210}],
      \* memory pressure comes and goes, CPU load changes
      [Quiet EXCEPT !.used = {100, 210}, !.cpu = {7, 9}],
      \* memory pressure comes and goes, disks fill
      [Quiet EXCEPT !.used = {100, 210},
                    !.disks = {<<Disk(100, 40)>>, <<Disk(100, 10), Disk(50, 50), Disk(30, 0)>>}],
      \* the host name is unset, empty, or changes
      [Quiet EXCEPT !.host = {None, Some(""), Some("alpha"), Some("beta")}],
      \* the provider reports no total memory, or less than is used
      [Quiet EXCEPT !.total = {0, 64}],
      \* a disk reports more free space than it has, or no space at all
      [Quiet EXCEPT !.disks = {<<Disk(100, 120)>>, <<Disk(0, 0)>>}],
      \* processes come and go
      [Quiet EXCEPT !.procs = {12, 15}] }

----------------------------------------------------------------------------
(* State *)

\* op: the operation; locked: it acquired the lock; executed: a refresh pass ran to
\* its end; queried: the provider was asked for telemetry
Op(op, locked, executed, queried) ==
    [ op |-> op, locked |-> locked, executed |-> executed, queried |-> queried ]

Idle == Op("none", FALSE, FALSE, FALSE)

\* an answer of get_system_stats: when it was given, whether the lock was acquired,
\* the cycle_count the call left, and the Snapshot returned
Answer(at, locked, m, stats) ==
    [ answered |-> TRUE, at |-> at, locked |-> locked, cycle |-> m.cycle_count,
      stats |-> stats ]

NoResp == [ answered |-> FALSE, at |-> 0, locked |-> FALSE, cycle |-> 0,
            stats |-> SystemStatsDefault(0) ]

\* the pushes of a pass: CPU at line 219, memory at line 287
Pushed(p, cpu, memory) ==
    [ cpu |-> p.cpu + (IF cpu THEN 1 ELSE 0), memory |-> p.memory + (IF memory THEN 1 ELSE 0) ]

\* the branches of the last executed pass, and the number of executed passes in a
\* row, up to and including it, that ran at level >= 2 (dry_hi) or at level 1
\* (dry_lo) and did not take the disk branch
NoPass ==
    [ level |-> 2, rescan |-> FALSE, disk |-> FALSE, net |-> FALSE, temp |-> FALSE,
      cpu_read |-> 0, dry_hi |-> 0, dry_lo |-> 0 ]

Observed(prev, r) ==
    IF ~r.executed THEN prev
    ELSE [ level    |-> r.did.level,
           rescan   |-> r.did.rescan,
           disk     |-> r.did.disk,
           net      |-> r.did.net,
           temp     |-> r.did.temp,
           cpu_read |-> r.did.cpu_read,
           dry_hi   |-> IF r.did.level >= 2 /\ ~r.did.disk THEN prev.dry_hi + 1 ELSE 0,
           dry_lo   |-> IF r.did.level = 1 /\ ~r.did.disk THEN prev.dry_lo + 1 ELSE 0 ]

\* get_detailed_memory_status over the handle's cached readings
DetailedMemoryStatus_CachedFlag(m) ==
    [ used    |-> m.system.used_memory,
      total   |-> m.system.total_memory,
      percent |-> Percent(m.system.used_memory, m.system.total_memory),
      level   |-> m.resource_level,
      within  |-> m.stats.memory_within_bounds,
      min     |-> m.memory_limit_min,
      max     |-> m.memory_limit_max ]

\* get_detailed_memory_status, lines 419-441: the values the text is formatted from
DetailedMemoryStatus(m) ==
    [ used    |-> m.system.used_memory,
      total   |-> m.system.total_memory,
      percent |-> Percent(m.system.used_memory, m.system.total_memory),
      level   |-> m.resource_level,
      within  |-> /\ m.system.used_memory >= m.memory_limit_min
                  /\ m.system.used_memory <= m.memory_limit_max,
      min     |-> m.memory_limit_min,
      max     |-> m.memory_limit_max ]

NoBody ==
    [ used |-> 0, total |-> 0, percent |-> Zero, level |-> 0, within |-> FALSE,
      min |-> 0, max |-> 0 ]

\* no answer of get_memory_status since the last other operation
NoReport == [ status |-> 0, body |-> NoBody ]

\* no call of find_available_port
NoCall ==
    [ called |-> FALSE, preferred_port |-> 0, max_attempts |-> None, busy |-> {},
      returned |-> FALSE, ok |-> FALSE, port |-> 0 ]

\* init_monitoring, lines 453-464: the monitor is built and the worker starts its
\* initial delay with sleep_duration = 5 s
InitCollector(hosts) ==
    /\ platform \in hosts
    /\ now = 0
    /\ \E used \in platform.used, total \in platform.total :
          monitor = SystemMonitorNew(0, used, total)
    /\ poisoned = FALSE
    /\ REFRESH_COUNTER = 0
    /\ worker = [ pc |-> "startup", sleep_duration |-> Secs(5), wake_at |-> InitialDelay,
                  active |-> TRUE, attempted |-> None ]
    /\ last_op = Idle
    /\ resp = NoResp
    /\ pushes = [ cpu |-> 0, memory |-> 0 ]
    /\ pass = NoPass
    /\ report = NoReport

Init ==
    /\ InitCollector(Platforms)
    /\ port = NoCall

\* time passes; a sleeping worker wakes when its sleep is over
Advance ==
    /\ worker.pc \in {"dead", "exited"} \/ now < worker.wake_at
    /\ now' = now + 1
    /\ UNCHANGED <<platform, monitor, poisoned, REFRESH_COUNTER, worker, last_op, resp,
                   pushes, pass, report, port>>

Tick ==
    /\ now < MaxTime
    /\ Advance

\* an executed pass is possible while the model's cycle bound is not reached
MayRefresh(m, t) == Throttled(m, t) \/ m.cycle_count < MaxCycle

\* lines 467-469: the loop condition holds, the worker sleeps sleep_duration
WorkerWake ==
    /\ worker.pc \in {"startup", "sleep_bottom"}
    /\ now >= worker.wake_at
    /\ worker.active
    /\ worker' = [worker EXCEPT !.pc = "sleep_top", !.wake_at = now + worker.sleep_duration]
    /\ UNCHANGED <<platform, now, monitor, poisoned, REFRESH_COUNTER, last_op, resp,
                   pushes, pass, report, port>>

\* lines 471-549 with the lock acquired: refresh, the cadence policy, the next sleep
worker_iteration ==
    /\ worker.pc = "sleep_top"
    /\ now >= worker.wake_at
    /\ ~poisoned
    /\ \E rd \in Readings(platform) :
         LET r == Refresh(monitor, REFRESH_COUNTER, now, rd)
             stats == r.monitor.stats
             g == LoopCadence(r.monitor, stats.memory_used)
         IN  /\ monitor' = Govern(r.monitor, stats, rd)
             /\ REFRESH_COUNTER' = r.counter
             /\ worker' = [worker EXCEPT !.pc = "sleep_bottom",
                                         !.sleep_duration = NextSleep(TRUE, g.sleep),
                                         !.wake_at = now + NextSleep(TRUE, g.sleep),
                                         !.attempted = Some(now)]
             /\ last_op' = Op("loop", TRUE, r.executed,
                             r.executed \/ stats.memory_used > monitor.memory_limit_max)
             /\ pushes' = Pushed(pushes, r.executed, r.executed)
             /\ pass' = Observed(pass, r)
    /\ report' = NoReport
    /\ UNCHANGED <<platform, now, poisoned, resp, port>>

WorkerIterate ==
    /\ MayRefresh(monitor, now)
    /\ worker_iteration

\* lines 471, 539-549 with the lock poisoned: no refresh, retry after 1 s
WorkerLockFails ==
    /\ worker.pc = "sleep_top"
    /\ now >= worker.wake_at
    /\ poisoned
    /\ worker' = [worker EXCEPT !.pc = "sleep_bottom",
                                !.sleep_duration = NextSleep(FALSE, @),
                                !.wake_at = now + NextSleep(FALSE, worker.sleep_duration),
                                !.attempted = Some(now)]
    /\ last_op' = Op("loop", FALSE, FALSE, FALSE)
    /\ report' = NoReport
    /\ UNCHANGED <<platform, now, monitor, poisoned, REFRESH_COUNTER, resp, pushes, pass,
                   port>>

\* get_system_stats, lines 561-570
get_system_stats ==
    /\ IF poisoned
       THEN /\ resp' = Answer(now, FALSE, monitor, SystemStatsDefault(now))
            /\ last_op' = Op("get_snapshot", FALSE, FALSE, FALSE)
            /\ UNCHANGED <<monitor, REFRESH_COUNTER, pushes, pass>>
       ELSE \E rd \in Readings(platform) :
              LET r == Refresh(monitor, REFRESH_COUNTER, now, rd)
              IN  /\ monitor' = r.monitor
                  /\ REFRESH_COUNTER' = r.counter
                  /\ resp' = Answer(now, TRUE, r.monitor, r.monitor.stats)
                  /\ pushes' = Pushed(pushes, r.executed, r.executed)
                  /\ pass' = Observed(pass, r)
                  /\ last_op' = Op("get_snapshot", TRUE, r.executed, r.executed)
    /\ report' = NoReport
    /\ UNCHANGED <<platform, now, poisoned, worker, port>>

GetSnapshot ==
    /\ MayRefresh(monitor, now) \/ poisoned
    /\ get_system_stats

\* get_memory_status, lines 601-609 (get_detailed_memory_status, lines 419-441)
GetMemoryReport ==
    /\ last_op' = Op("memory_report", ~poisoned, FALSE, FALSE)
    /\ report' = IF poisoned
                 THEN [ status |-> 500, body |-> NoBody ]
                 ELSE [ status |-> 200, body |-> DetailedMemoryStatus(monitor) ]
    /\ UNCHANGED <<platform, now, monitor, poisoned, REFRESH_COUNTER, worker, resp,
                   pushes, pass, port>>

\* println! of line 230 or 234 panics (stdout is closed) in the thread that holds the
\* lock: the pass stops there, the guard is dropped during unwinding and poisons the
\* Mutex; a panic of the worker ends the worker
RefreshPanics(who) ==
    /\ ~poisoned
    /\ who = "worker" => worker.pc = "sleep_top" /\ now >= worker.wake_at
    /\ monitor.active /\ ~Throttled(monitor, now)
    /\ \E rd \in Readings(platform) :
         /\ LevelPrints(monitor, rd.used)
         /\ LET h == RefreshHead(monitor, REFRESH_COUNTER, now, rd)
            IN  /\ monitor' = [monitor EXCEPT
                                  !.system.used_memory = rd.used,
                                  !.system.total_memory = rd.total,
                                  !.system.components =
                                      IF h.counter = 0 THEN rd.comps ELSE @,
                                  !.cpu_history = h.monitor.cpu_history,
                                  !.resource_level = h.level]
                /\ REFRESH_COUNTER' = h.counter
         /\ last_op' = Op("panic", TRUE, FALSE, TRUE)
    /\ pushes' = Pushed(pushes, TRUE, FALSE)
    /\ poisoned' = TRUE
    /\ worker' = IF who = "worker" THEN [worker EXCEPT !.pc = "dead"] ELSE worker
    /\ report' = NoReport
    /\ UNCHANGED <<platform, now, resp, pass, port>>

Next ==
    \/ Tick
    \/ WorkerWake
    \/ WorkerIterate
    \/ WorkerLockFails
    \/ GetSnapshot
    \/ GetMemoryReport
    \/ \E who \in {"worker", "query"} : RefreshPanics(who)

Spec == Init /\ [][Next]_vars

----------------------------------------------------------------------------
(* The collector with a client that calls get_system_stats once per            *)
(* update_interval, as soon as a refresh pass is due                           *)

PollPlatforms ==
    { \* memory below and above 80% of the upper limit, disks fill
      [Quiet EXCEPT !.used = {100, 170},
                    !.disks = {<<Disk(100, 40)>>, <<Disk(100, 10), Disk(50, 50), Disk(30, 0)>>}],
      \* memory below 80%, above 80% and above the upper limit, traffic flows
      [Quiet EXCEPT !.used = {100, 170, 210},
                    !.nets = {<<Net(5, 3)>>, <<Net(6, 4), Net(1, 1), Net(2, 2)>>}],
      \* three sensors, two of them of the CPU, the hotter one listed last
      [Quiet EXCEPT !.used = {100, 170},
                    !.comps = {<<Sensor("GPU", 70), Sensor("CPU", 55), Sensor("CPU die", 80)>>,
                               <<Sensor("GPU", 71), Sensor("CPU", 56), Sensor("CPU die", 81)>>}] }

InitPoll ==
    /\ InitCollector(PollPlatforms)
    /\ port = NoCall

\* time passes while no pass is due
PollTick ==
    /\ now < PollMaxTime
    /\ Throttled(monitor, now) \/ monitor.cycle_count >= PollMaxCycle
    /\ Advance

\* the client's call, at the moment a pass is due
Poll ==
    /\ ~Throttled(monitor, now)
    /\ monitor.cycle_count < PollMaxCycle
    /\ get_system_stats

NextPoll ==
    \/ PollTick
    \/ WorkerWake
    \/ WorkerIterate
    \/ Poll

SpecPoll == InitPoll /\ [][NextPoll]_vars

----------------------------------------------------------------------------
(* The collector left to its worker for 47 s, stdout open; a client calls only   *)
(* around the instant the 30 s reclamation interval has passed since creation    *)

WorkerPlatforms ==
    { \* memory below the lower limit: a pass every 6 s
      [Quiet EXCEPT !.used = {30}],
      \* memory below the lower limit or in the lower half of the target range
      [Quiet EXCEPT !.used = {30, 100}],
      \* memory in the upper half of the target range or above 90% of the limit
      [Quiet EXCEPT !.used = {130, 190}],
      \* memory pressure comes and goes
      [Quiet EXCEPT !.used = {100, 210}] }

InitWorker ==
    /\ InitCollector(WorkerPlatforms)
    /\ port = NoCall

WorkerTick ==
    /\ now < WorkerMaxTime
    /\ Advance

LateQuery ==
    /\ now \in LateFrom..LateUntil
    /\ get_system_stats

NextWorker ==
    \/ WorkerTick
    \/ WorkerWake
    \/ worker_iteration
    \/ LateQuery

SpecWorker == InitWorker /\ [][NextWorker]_vars

----------------------------------------------------------------------------
(* The owner of MonitoringData stops the worker: it stores false to the public   *)
(* flag `active`, which the worker loads in the test of its `while`              *)

InitStop ==
    /\ InitCollector(WorkerPlatforms)
    /\ port = NoCall

StopTick ==
    /\ now < StopMaxTime
    /\ Advance

\* monitoring_data.active.store(false, ..) by the owner (line 448: the field is pub)
Stop ==
    /\ worker.active
    /\ worker.pc \notin {"dead", "exited"}
    /\ worker' = [worker EXCEPT !.active = FALSE]
    /\ UNCHANGED <<platform, now, monitor, poisoned, REFRESH_COUNTER, last_op, resp,
                   pushes, pass, report, port>>

\* line 467: the test of the `while` finds the flag false and the closure returns
WorkerExit ==
    /\ worker.pc \in {"startup", "sleep_bottom"}
    /\ now >= worker.wake_at
    /\ ~worker.active
    /\ worker' = [worker EXCEPT !.pc = "exited"]
    /\ UNCHANGED <<platform, now, monitor, poisoned, REFRESH_COUNTER, last_op, resp,
                   pushes, pass, report, port>>

NextStop ==
    \/ StopTick
    \/ WorkerWake
    \/ worker_iteration
    \/ Stop
    \/ WorkerExit

SpecStop == InitStop /\ [][NextStop]_vars

----------------------------------------------------------------------------
(* The worker's retries on a poisoned lock, for as long as the process runs.     *)
(* Instant is opaque and the program reads only differences of instants; once    *)
(* the lock is poisoned the instants stored behind it are never read again, so   *)
(* the passing of time is told by moving the worker's instants back and leaving  *)
(* `now` where it is.  The thread is scheduled and its sleeps end.               *)

RetryPlatforms ==
    { \* memory below and above 80% of the upper limit
      [Quiet EXCEPT !.used = {100, 170}],
      \* memory above the upper limit now and then, CPU load changes
      [Quiet EXCEPT !.used = {100, 210}, !.cpu = {7, 9}] }

InitRetry ==
    /\ InitCollector(RetryPlatforms)
    /\ port = NoCall

RetryTick ==
    /\ ~poisoned
    /\ now < RetryMaxTime
    /\ Advance

\* thread::sleep of lines 469 and 549 going on while the lock is poisoned
Elapse ==
    /\ poisoned
    /\ worker.pc \in {"startup", "sleep_top", "sleep_bottom"}
    /\ now < worker.wake_at
    /\ worker' = [worker EXCEPT !.wake_at = @ - 1,
                                !.attempted = IF @.some THEN Some(@.v - 1) ELSE @]
    /\ UNCHANGED <<platform, now, monitor, poisoned, REFRESH_COUNTER, last_op, resp,
                   pushes, pass, report, port>>

NextRetry ==
    \/ RetryTick
    \/ Elapse
    \/ WorkerWake
    \/ WorkerIterate
    \/ WorkerLockFails
    \/ \E who \in {"worker", "query"} : RefreshPanics(who)

SpecRetry ==
    /\ InitRetry
    /\ [][NextRetry]_vars
    /\ WF_vars(RetryTick)
    /\ WF_vars(Elapse)
    /\ WF_vars(WorkerWake)
    /\ WF_vars(WorkerIterate)
    /\ WF_vars(WorkerLockFails)

----------------------------------------------------------------------------
(* utils.rs: find_available_port *)

PortSpace == 65536        \* u16
DefaultAttempts == 100    \* max_attempts.unwrap_or(100)
RandomMin == 49152
RandomMax == 65535

\* port + 1 that stops at the last port instead of wrapping
WrappingAdd_Saturating(p) == IF p + 1 < PortSpace THEN p + 1 ELSE p

\* u16::wrapping_add(1), line 44
WrappingAdd(p) == (p + 1) % PortSpace

\* TcpListener::bind on 0.0.0.0:p; port 0 asks the OS for any free port
Bind(p, busy) == p \notin busy

UnwrapOr(opt, default) == IF opt.some THEN opt.v ELSE default

\* the loop of lines 33-47: Some(port) of the first successful bind, None after
\* max_attempts failures
RECURSIVE TryPorts(_, _, _, _)
TryPorts(p, attempt, max_attempts, busy) ==
    IF attempt >= max_attempts THEN None
    ELSE IF Bind(p, busy) THEN Some(p)
    ELSE TryPorts(WrappingAdd(p), attempt + 1, max_attempts, busy)

\* the ports rng.gen_range(49152..=65535) is followed to
RandomPorts == {RandomMin, 60000, RandomMax}

\* generate_random_port(min, max), lines 63-77, when the generator draws r
GenerateRandomPort(min, max, r, busy) ==
    IF min >= max THEN [ok |-> FALSE, port |-> 0]
    ELSE IF Bind(r, busy) THEN [ok |-> TRUE, port |-> r]
    ELSE [ok |-> FALSE, port |-> 0]

PreferredPorts == {8080, PortSpace - 2}

\* the ports a call can find taken: those it may probe, and one of the random ones
Window(p) == ({(p + i) % PortSpace : i \in 0..(MaxAttempts - 1)} \ {0}) \cup {60000}

InitPort ==
    /\ InitCollector({Quiet})
    /\ \E p \in PreferredPorts, n \in {None} \cup {Some(k) : k \in 0..MaxAttempts} :
         \E busy \in SUBSET Window(p) :
            port = [ called |-> TRUE, preferred_port |-> p, max_attempts |-> n,
                     busy |-> busy, returned |-> FALSE, ok |-> FALSE, port |-> 0 ]

\* find_available_port, lines 29-53
FindAvailablePort ==
    /\ port.called /\ ~port.returned
    /\ LET first == TryPorts(port.preferred_port, 0,
                             UnwrapOr(port.max_attempts, DefaultAttempts), port.busy)
       IN  IF first.some
           THEN port' = [port EXCEPT !.returned = TRUE, !.ok = TRUE, !.port = first.v]
           ELSE \E r \in RandomPorts :
                  LET random_port == GenerateRandomPort(RandomMin, RandomMax, r, port.busy)
                  IN  port' = [port EXCEPT !.returned = TRUE, !.ok = random_port.ok,
                                           !.port = random_port.port]
    /\ UNCHANGED <<platform, now, monitor, poisoned, REFRESH_COUNTER, worker, last_op,
                   resp, pushes, pass, report>>

NextPort == FindAvailablePort

SpecPort == InitPort /\ [][NextPort]_vars

----------------------------------------------------------------------------
(* The claims *)

Flagged(stats) ==
    stats.memory_within_bounds
        = (memory_limit_min <= stats.memory_used /\ stats.memory_used <= memory_limit_max)

\* a pass ran to its end in this step
Executed == monitor'.cycle_count = monitor.cycle_count + 1

\* C1: the Snapshot callers can see (the stored one, the initial default, the
\* answer of get_system_stats with or without the lock) always has
\* memory_within_bounds = (min <= memory_used <= max)
C1_WithinBoundsFlag ==
    /\ Flagged(monitor.stats)
    /\ resp.answered => Flagged(resp.stats)

\* C2: an answer of get_system_stats given less than update_interval after the
\* answer before it is the same Snapshot
C2_AnyTwoCallsWithinInterval ==
    [][ (resp' # resp /\ resp.answered /\ resp'.at - resp.at < Secs(1))
            => resp'.stats = resp.stats ]_vars

\* C2 as amended: two answers given with the lock, the second less than
\* update_interval after the last executed refresh and no refresh executed since
\* the first, are the same Snapshot
C2_CallsWithinIntervalOfOneRefresh ==
    [][ (/\ resp' # resp
         /\ resp.answered /\ resp.locked /\ resp'.locked
         /\ resp.cycle = monitor.cycle_count
         /\ now - monitor.last_update < Secs(1))
            => resp'.stats = resp.stats ]_vars

\* a query executed a refresh before the worker's first pass, and a second query,
\* less than update_interval later, has just been answered from the cache
C2_Witness ==
    /\ last_op = Op("get_snapshot", TRUE, FALSE, FALSE)
    /\ resp.at = now
    /\ worker.pc \in {"startup", "sleep_top"} /\ pushes.cpu = monitor.cycle_count
    /\ monitor.cycle_count >= 1
    /\ 0 < now - monitor.last_update /\ now - monitor.last_update < Secs(1)
    /\ resp.stats.memory_used > 0

Smaller(a, b) == IF a <= b THEN a ELSE b

\* C3: after K pushes a history buffer holds min(capacity, K) entries
C3_LenIsMinOfCapacityAndPushes ==
    /\ Len(monitor.cpu_history) = Smaller(cpu_history_size, pushes.cpu)
    /\ Len(monitor.memory_history) = Smaller(memory_history_size, pushes.memory)

\* C3 as amended: a history buffer holds capacity entries after any number K >= 0 of
\* pushes, of which the first capacity - K are the zeros it was created with; so
\* its length is min(capacity, K) only from K = capacity on
C3_LenIsCapacity ==
    /\ Len(monitor.cpu_history) = cpu_history_size
    /\ Len(monitor.memory_history) = memory_history_size
    /\ \A i \in 1..(cpu_history_size - pushes.cpu) : monitor.cpu_history[i] = 0
    /\ \A i \in 1..(memory_history_size - pushes.memory) : monitor.memory_history[i] = 0
    /\ pushes.cpu >= cpu_history_size
          => Len(monitor.cpu_history) = Smaller(cpu_history_size, pushes.cpu)
    /\ pushes.memory >= memory_history_size
          => Len(monitor.memory_history) = Smaller(memory_history_size, pushes.memory)

\* fewer pushes than the capacity, and the buffer is full all the same
C3_Witness ==
    /\ 0 < pushes.memory /\ pushes.memory < memory_history_size
    /\ Len(monitor.memory_history) = memory_history_size
    /\ monitor.memory_history[memory_history_size] > 0

\* C4: an executed refresh drops the oldest entry of each history buffer and appends
\* the pass's CPU value and memory_used at the back; no buffer exceeds its capacity
C4_HistoryIsFifo ==
    /\ [](/\ Len(monitor.cpu_history) <= cpu_history_size
          /\ Len(monitor.memory_history) <= memory_history_size)
    /\ [][ Executed =>
            /\ monitor'.cpu_history
                 = SubSeq(monitor.cpu_history, 2, Len(monitor.cpu_history))
                      \o <<monitor'.stats.cpu_usage>>
            /\ monitor'.memory_history
                 = SubSeq(monitor.memory_history, 2, Len(monitor.memory_history))
                      \o <<monitor'.stats.memory_used>> ]_vars

\* more passes than either capacity: every entry is a sample, the newest at the back,
\* and the pass before evicted a sample
C4_Witness ==
    /\ last_op.executed
    /\ monitor.cycle_count > cpu_history_size
    /\ monitor.cycle_count > memory_history_size
    /\ monitor.memory_history[1] # monitor.memory_history[memory_history_size]
    /\ monitor.memory_history[memory_history_size] = monitor.stats.memory_used

\* the loop-cadence table of the specification, on real numbers
CadenceSleep(used) ==
    IF used > memory_limit_max THEN 20
    ELSE IF 10 * used > 9 * memory_limit_max THEN 10
    ELSE IF used < memory_limit_min THEN 3
    ELSE IF 2 * used < 2 * memory_limit_min + (memory_limit_max - memory_limit_min) THEN 5
    ELSE 8

CadenceLevel(used) ==
    IF used > memory_limit_max THEN 0
    ELSE IF 10 * used > 9 * memory_limit_max THEN 1
    ELSE IF used < memory_limit_min THEN 2
    ELSE IF 2 * used < 2 * memory_limit_min + (memory_limit_max - memory_limit_min) THEN 2
    ELSE 1

\* the worker has just finished an iteration in which it held the lock
AfterLockedIteration == last_op.op = "loop" /\ last_op.locked

\* C5: after a loop iteration that acquired the lock, the next sleep and
\* resource_level are those of the cadence table for the returned memory_used
C5_LoopCadence ==
    AfterLockedIteration =>
        /\ worker.sleep_duration = Secs(CadenceSleep(monitor.stats.memory_used))
        /\ monitor.resource_level = CadenceLevel(monitor.stats.memory_used)

\* an iteration in the lower half of the target range
C5_Witness ==
    /\ AfterLockedIteration /\ last_op.executed
    /\ monitor.stats.memory_used = 124 * MB
    /\ worker.sleep_duration = Secs(5) /\ monitor.resource_level = 2

Row(used, level, secs) ==
    (AfterLockedIteration /\ monitor.stats.memory_used = used * MB)
        => (monitor.resource_level = level /\ worker.sleep_duration = Secs(secs))

\* C6: with min = 50 MB and max = 200 MB: 210 MB gives Minimal and 20 s, 190 MB Low
\* and 10 s, 30 MB Medium and 3 s, 125 MB Medium and 5 s, 160 MB Low and 8 s
C6_BoundaryTable ==
    /\ memory_limit_min = 50 * MB /\ memory_limit_max = 200 * MB
    /\ Row(210, 0, 20) /\ Row(190, 1, 10) /\ Row(30, 2, 3) /\ Row(125, 2, 5)
    /\ Row(160, 1, 8)

\* C6 as amended: the same table with 125 MB, which is not below min + (max - min)/2,
\* giving Low and 8 s
C6_BoundaryTableAmended ==
    /\ memory_limit_min = 50 * MB /\ memory_limit_max = 200 * MB
    /\ Row(210, 0, 20) /\ Row(190, 1, 10) /\ Row(30, 2, 3) /\ Row(125, 1, 8)
    /\ Row(160, 1, 8)

\* an iteration that measured exactly 125 MB
C6_Witness ==
    AfterLockedIteration /\ last_op.executed /\ monitor.stats.memory_used = 125 * MB

DiskFields(stats) == <<stats.disk_total, stats.disk_free, stats.disk_usage_percent>>

\* C7: an executed refresh that measures memory_used > max (level Minimal) leaves
\* disk_total, disk_free and disk_usage_percent as they were
C7_DiskHeldAtMinimal ==
    [][ (Executed /\ monitor'.stats.memory_used > memory_limit_max)
            => DiskFields(monitor'.stats) = DiskFields(monitor.stats) ]_vars

\* the last passes were all at Minimal and hold a disk value measured before them,
\* on a host whose disks change
C7_Witness ==
    /\ last_op.executed
    /\ monitor.cycle_count > memory_history_size
    /\ \A i \in 1..memory_history_size : monitor.memory_history[i] > memory_limit_max
    /\ monitor.stats.disk_total > 0
    /\ Cardinality(platform.disks) > 1

\* C8: from the first executed refresh on, the Snapshot's hostname never changes
C8_HostnameCachedOnce ==
    [][ (Executed /\ monitor.cycle_count >= 1)
            => monitor'.stats.hostname = monitor.stats.hostname ]_vars

\* C9: with the lock poisoned by a panic inside a refresh, get_system_stats answers
\* with the last good Snapshot: the one the last completed refresh stored, which the
\* monitor still holds (the pass that panicked did not reach the store of line 388)
C9_LastGoodSnapshotAfterPoison ==
    (poisoned /\ last_op.op = "get_snapshot" /\ monitor.cycle_count >= 1)
        => resp.stats = monitor.stats

\* this step is a call of the query `op`
QueryStep(op) == last_op'.op = op /\ (last_op' # last_op \/ resp' # resp)

CollectorUnchanged == monitor' = monitor /\ REFRESH_COUNTER' = REFRESH_COUNTER

\* C10: a query changes no collector state and asks the provider nothing
C10_QueriesNeverMutate ==
    [][ (QueryStep("get_snapshot") \/ QueryStep("memory_report"))
            => (CollectorUnchanged /\ ~last_op'.queried) ]_vars

\* C10 as amended: get_memory_status, and get_system_stats when the lock is poisoned
\* or less than update_interval has passed since the last executed refresh, change
\* no collector state and ask the provider nothing; get_system_stats at any other
\* time executes a refresh pass itself
C10_QueriesWithinIntervalNeverMutate ==
    /\ [][ (\/ QueryStep("memory_report")
            \/ /\ QueryStep("get_snapshot")
               /\ poisoned \/ now - monitor.last_update < Secs(1))
              => (CollectorUnchanged /\ ~last_op'.queried) ]_vars
    /\ [][ (/\ QueryStep("get_snapshot")
            /\ ~poisoned /\ now - monitor.last_update >= Secs(1))
              => (Executed /\ last_op'.queried) ]_vars

\* a get_system_stats call inside the interval has just been answered from the cache
C10_Witness ==
    /\ last_op = Op("get_snapshot", TRUE, FALSE, FALSE)
    /\ resp.at = now
    /\ monitor.cycle_count >= 1
    /\ now - monitor.last_update < Secs(1)

InRange(percent) == percent.k = "num" /\ 0 <= percent.v /\ percent.v <= 100

\* C11: memory_usage_percent and disk_usage_percent of every Snapshot a refresh
\* produced lie in [0, 100], whatever the provider reported
C11_PercentagesInRange ==
    monitor.cycle_count >= 1 =>
        /\ InRange(monitor.stats.memory_usage_percent)
        /\ InRange(monitor.stats.disk_usage_percent)

NoMatchingSensor(p) ==
    \A comps \in p.comps : \A i \in 1..Len(comps) : ~ContainsCPU(comps[i].label)

\* C12: on a platform without a matching temperature sensor, cpu_temp is None in
\* every Snapshot, also after a refresh that took the temperature branch
C12_NoSensorNoTemp ==
    NoMatchingSensor(platform) =>
        /\ monitor.stats.cpu_temp = None
        /\ resp.answered => resp.stats.cpu_temp = None

\* C13: get_memory_status is answered from what the monitor holds: it changes no
\* field of the collector and asks the provider nothing, and the within-bounds flag
\* of its answer is (min <= used <= max) for the used value of the same answer
C13_MemoryReportOnDemand ==
    [][ QueryStep("memory_report") =>
          /\ CollectorUnchanged /\ ~last_op'.queried
          /\ pass' = pass /\ pushes' = pushes
          /\ report'.status = (IF poisoned THEN 500 ELSE 200)
          /\ report'.status = 200 =>
                /\ report'.body.used = monitor.system.used_memory
                /\ report'.body.within
                      = (/\ memory_limit_min <= report'.body.used
                         /\ report'.body.used <= memory_limit_max) ]_vars

\* a report given after a reclamation: the handle's reading is inside the bounds
\* while the Snapshot's memory_used is above them
C13_Witness ==
    /\ last_op.op = "memory_report"
    /\ report.status = 200
    /\ report.body.within
    /\ monitor.cycle_count >= 1
    /\ monitor.stats.memory_used > memory_limit_max
    /\ ~monitor.stats.memory_within_bounds

\* C14: find_available_port(p, Some(n)), when it returns Ok, returns the first port
\* of p, p+1, .., p+n-1 that can be bound
C14_PortInRequestedRange ==
    (port.returned /\ port.ok /\ port.max_attempts.some /\ port.max_attempts.v >= 1) =>
        /\ port.preferred_port <= port.port
        /\ port.port < port.preferred_port + port.max_attempts.v
        /\ port.port \notin port.busy
        /\ \A q \in port.preferred_port..(port.port - 1) : q \in port.busy

\* the sampling-breadth table of the specification, on real numbers
BreadthTable(used) ==
    IF used > memory_limit_max THEN 0
    ELSE IF 10 * used > 8 * memory_limit_max THEN 1
    ELSE 2

\* C15: the level an executed refresh computes is a function of the memory_used it
\* measured alone: 0 above max, else 1 above 0.8 * max, else 2 (also below min); a
\* refresh that a query executed leaves that level in resource_level
C15_BreadthFromMemoryAlone ==
    [][ Executed =>
          /\ pass'.level = BreadthTable(monitor'.stats.memory_used)
          /\ last_op'.op = "get_snapshot" => monitor'.resource_level = pass'.level ]_vars

\* a query's pass measured memory in the lower bands right after a pass above max:
\* the level went from 0 to 2
C15_Witness ==
    /\ last_op = Op("get_snapshot", TRUE, TRUE, TRUE)
    /\ monitor.cycle_count >= memory_history_size
    /\ monitor.memory_history[memory_history_size - 1] > memory_limit_max
    /\ monitor.stats.memory_used <= (memory_limit_max * 8) \div 10
    /\ pass.level = 2 /\ monitor.resource_level = 2

\* the first `limit` entries of the list s
FirstOf(s, limit) == SubSeq(s, 1, Smaller(Len(s), limit))

RECURSIVE Total(_, _)
Total(s, f) == IF s = <<>> THEN 0 ELSE Head(s)[f] + Total(Tail(s), f)

\* C16: an executed refresh recomputes the disk fields exactly when (level >= 2 and
\* cycle_count % 5 = 0) or (level = 1 and cycle_count % 10 = 0), from the disks the
\* provider lists in that pass, and leaves the three fields as they were otherwise;
\* so no 5 executed refreshes in a row at level >= 2, and no 10 in a row at level 1,
\* go without recomputing them
C16_DiskGating ==
    /\ [][ Executed =>
            /\ pass'.disk = (\/ pass'.level >= 2 /\ monitor.cycle_count % 5 = 0
                             \/ pass'.level = 1 /\ monitor.cycle_count % 10 = 0)
            /\ ~pass'.disk => DiskFields(monitor'.stats) = DiskFields(monitor.stats)
            /\ pass'.disk =>
                  \E d \in platform.disks :
                     LET seen == IF pass'.level >= 2 THEN d ELSE FirstOf(d, 2)
                     IN  /\ monitor'.stats.disk_total = Total(seen, "total")
                         /\ monitor'.stats.disk_free = Total(seen, "free") ]_vars
    /\ [](pass.dry_hi < 5 /\ pass.dry_lo < 10)

\* the eleventh pass ran at level 1 with cycle_count = 10, after nine passes at level
\* 1 without the disk branch, and summed the first two of three disks
C16_Witness ==
    /\ monitor.cycle_count = 11
    /\ pass.level = 1 /\ pass.disk /\ pass.dry_lo = 0
    /\ monitor.stats.disk_total = 150 /\ monitor.stats.disk_free = 60

NetFields(stats) == <<stats.network_received, stats.network_transmitted>>

\* C17: an executed refresh recomputes the network counters exactly when (level >= 3
\* and cycle_count % 3 = 0) or (level = 2 and cycle_count % 8 = 0), and leaves them as
\* they were otherwise, in particular at levels 0 and 1
C17_NetGating ==
    [][ Executed =>
          /\ pass'.net = (\/ pass'.level >= 3 /\ monitor.cycle_count % 3 = 0
                          \/ pass'.level = 2 /\ monitor.cycle_count % 8 = 0)
          /\ ~pass'.net => NetFields(monitor'.stats) = NetFields(monitor.stats)
          /\ pass'.level <= 1 => NetFields(monitor'.stats) = NetFields(monitor.stats)
          /\ pass'.net =>
                \E n \in platform.nets :
                   LET seen == IF pass'.level >= 3 THEN n ELSE FirstOf(n, 2)
                   IN  /\ monitor'.stats.network_received = Total(seen, "rx")
                       /\ monitor'.stats.network_transmitted = Total(seen, "tx") ]_vars

\* the ninth pass ran at level 2 with cycle_count = 8 and summed the first two of
\* three interfaces
C17_Witness ==
    /\ monitor.cycle_count = 9
    /\ pass.level = 2 /\ pass.net
    /\ NetFields(monitor.stats) = <<7, 5>>

\* the temperature of the first sensor of the list whose label matches
FirstMatching(comps) ==
    LET i == CHOOSE i \in 1..Len(comps) :
                /\ ContainsCPU(comps[i].label)
                /\ \A j \in 1..(i - 1) : ~ContainsCPU(comps[j].label)
    IN  comps[i].temperature

\* C18: an executed refresh recomputes cpu_temp exactly when level >= 2 and
\* cycle_count % 10 = 0, and leaves it as it was otherwise; the recomputed value comes
\* from no sensor but the first whose label matches (it is 0.0 when the handle lists
\* no sensor)
C18_TempGating ==
    [][ Executed =>
          /\ pass'.temp = (pass'.level >= 2 /\ monitor.cycle_count % 10 = 0)
          /\ ~pass'.temp => monitor'.stats.cpu_temp = monitor.stats.cpu_temp
          /\ pass'.temp =>
                /\ monitor'.stats.cpu_temp.some
                /\ \/ monitor'.system.components = <<>> /\ monitor'.stats.cpu_temp.v = 0
                   \/ \E comps \in platform.comps :
                         /\ ~NoMatchingSensor(platform)
                         /\ monitor'.stats.cpu_temp.v = FirstMatching(comps) ]_vars

\* the eleventh pass ran at level 2 with cycle_count = 10 and read the first CPU
\* sensor, which is not the hottest
C18_Witness ==
    /\ monitor.cycle_count = 11
    /\ pass.level = 2 /\ pass.temp
    /\ monitor.stats.cpu_temp \in {Some(55), Some(56)}

\* C19: exactly every third executed refresh rescans the inventory, at any level, and
\* processes_count is the provider's count in those passes and the previous
\* Snapshot's in the others
C19_RescanEveryThird ==
    [][ Executed =>
          /\ pass'.rescan = (monitor'.cycle_count % 3 = 0)
          /\ pass'.rescan = (REFRESH_COUNTER' = 0)
          /\ pass'.rescan => monitor'.stats.processes_count \in platform.procs
          /\ ~pass'.rescan
                => monitor'.stats.processes_count = monitor.stats.processes_count ]_vars

\* the third pass ran above max (level 0), rescanned and counted the processes for
\* the first time
C19_Witness ==
    /\ monitor.cycle_count = 3
    /\ pass.rescan /\ pass.level = 0
    /\ monitor.stats.processes_count > 0

\* C20: after an executed refresh at any level, cpu_usage, memory_used and
\* memory_total of the Snapshot are what the provider reported in that refresh
C20_CpuAndMemoryAlwaysSampled ==
    [][ Executed =>
          /\ monitor'.stats.cpu_usage = pass'.cpu_read
          /\ monitor'.stats.memory_used \in platform.used
          /\ monitor'.stats.memory_total \in platform.total ]_vars

\* this step is the part of a loop iteration that follows the sleep of line 469
WorkerAttempt == worker.pc = "sleep_top" /\ worker'.pc # "sleep_top"

\* C21: a loop iteration that finds the lock poisoned executes no refresh, leaves the
\* collector state as it was, sets the sleep duration to 1 s and goes on to the sleep
\* at the bottom of the loop; the worker thread ends by a panic only when it held
\* the lock itself, never because it found the lock poisoned
C21_PoisonedLockSkipsCycle ==
    [][ (WorkerAttempt /\ poisoned)
            => /\ CollectorUnchanged
               /\ pushes' = pushes /\ pass' = pass
               /\ ~last_op'.executed /\ ~last_op'.queried
               /\ worker'.sleep_duration = Secs(1)
               /\ worker'.wake_at = now + Secs(1)
               /\ worker'.pc = "sleep_bottom" ]_vars

\* the worker found the lock poisoned in its first iteration, when its sleep duration
\* was still the initial 5 s, after a refresh had completed
C21_Witness ==
    /\ last_op = Op("loop", FALSE, FALSE, FALSE)
    /\ poisoned
    /\ monitor.cycle_count >= 1
    /\ worker.pc = "sleep_bottom"
    /\ worker.sleep_duration = Secs(1)

\* C22: a loop iteration that wakes less than update_interval after the last refresh
\* leaves the whole collector state unchanged
C22_ThrottledIterationIsNoOp ==
    [][ (WorkerAttempt /\ ~poisoned /\ Throttled(monitor, now))
            => monitor' = monitor ]_vars

\* this step is a refresh call that went past the early return and reached the
\* memory sample of line 287
CompletedRefresh == pushes'.memory = pushes.memory + 1

\* C28: cycle_count never decreases; a refresh that executes, in the worker or in a
\* query, adds one to it; a step that executes no refresh (an early return among
\* them) leaves it alone; and last_update changes in exactly the steps in which
\* cycle_count does
C28_CycleCountAndLastUpdate ==
    [][ /\ monitor'.cycle_count >= monitor.cycle_count
        /\ CompletedRefresh
              => /\ monitor'.cycle_count = monitor.cycle_count + 1
                 /\ monitor'.last_update = now
        /\ ~CompletedRefresh => monitor'.cycle_count = monitor.cycle_count
        /\ (monitor'.last_update # monitor.last_update)
              <=> (monitor'.cycle_count # monitor.cycle_count) ]_vars

\* a query executed the first refresh, the worker's iteration the second, and a query
\* made right after it returned early
C28_Witness ==
    /\ monitor.cycle_count = 2
    /\ last_op = Op("get_snapshot", TRUE, FALSE, FALSE)
    /\ resp.cycle = 2
    /\ worker.attempted = Some(monitor.last_update)
    /\ pushes.memory = 2

\* C23: an executed refresh reclaims exactly when more than the interval has passed
\* since the last reclamation or memory_used is above the upper limit, the interval
\* being 10 s above the limit and 30 s otherwise; it then stamps
\* last_memory_cleanup with this instant and replaces the provider handle; in
\* every other executed refresh both stay as they were
C23_ReclamationTrigger ==
    [][ CompletedRefresh =>
          LET used == monitor'.stats.memory_used
              interval == IF used > 200 * MB THEN Secs(10) ELSE Secs(30)
              due == (now - monitor.last_memory_cleanup > interval) \/ used > 200 * MB
          IN  /\ due => /\ monitor'.last_memory_cleanup = now
                        /\ monitor'.system.id # monitor.system.id
              /\ ~due => /\ monitor'.last_memory_cleanup = monitor.last_memory_cleanup
                         /\ monitor'.system.id = monitor.system.id ]_vars

\* a pass measuring memory inside the limits reclaimed because more than 30 s had
\* passed since the creation of the monitor, and the next pass did not
C23_Witness ==
    /\ monitor.stats.memory_used <= 200 * MB
    /\ monitor.system.id = 1
    /\ monitor.last_memory_cleanup > Secs(30)
    /\ monitor.last_update > monitor.last_memory_cleanup

\* C26: the wait between two consecutive attempts of the worker to take the lock is
\* the sleep duration the earlier of the two chose
C26_OneSleepPerIteration ==
    [][ (WorkerAttempt /\ worker.attempted.some)
            => now - worker.attempted.v = worker.sleep_duration ]_vars

\* C29: in an executed refresh the level that decides the disk, network and
\* temperature branches is the breadth level of the memory measured in that same
\* pass, whatever level the pass found on entry (the one the cadence policy of the
\* previous iteration left); the level found on entry decides only whether the CPU
\* load is read
C29_GatesUseBreadthLevel ==
    [][ CompletedRefresh =>
          LET level == BreadthTable(monitor'.stats.memory_used)
              cycle == monitor.cycle_count
          IN  /\ pass'.level = level
              /\ monitor'.resource_level \in {level, CadenceLevel(monitor'.stats.memory_used)}
              /\ pass'.disk = (\/ level >= 2 /\ cycle % 5 = 0
                               \/ level = 1 /\ cycle % 10 = 0)
              /\ pass'.net = (\/ level >= 3 /\ cycle % 3 = 0
                              \/ level = 2 /\ cycle % 8 = 0)
              /\ pass'.temp = (level >= 2 /\ cycle % 10 = 0)
              /\ monitor'.stats.cpu_usage
                    = IF monitor.resource_level >= 1 THEN pass'.cpu_read
                      ELSE monitor.stats.cpu_usage ]_vars

\* the cadence policy left level 1 for 170 MB at 5.5 s; the sixth pass, at 6 s,
\* measured 100 MB and took the disk branch of level 2
C29_Witness ==
    /\ monitor.cycle_count = 6
    /\ monitor.memory_history = <<170, 100>>
    /\ worker.attempted = Some(monitor.last_update - 1)
    /\ pass.level = 2 /\ pass.disk
    /\ monitor.stats.disk_total = 180

\* C24: no memory reading makes the breadth policy choose level 3 (High), and some
\* memory reading makes the loop-cadence policy choose it
C24_HighOnlyByCadence ==
    /\ \A used \in 0..MaxUsed : BreadthLevel(monitor, used) # 3
    /\ \E used \in 0..MaxUsed : LoopCadence(monitor, used).level = 3

\* C25: once the stop flag is false the worker executes no further refresh
C25_NoRefreshAfterStop ==
    [][ ~worker.active => ~(WorkerAttempt /\ CompletedRefresh) ]_vars

\* C30: after an iteration in which the worker failed to take the lock, a later
\* iteration takes it and executes a refresh
C30_RetryEventuallySucceeds ==
    (last_op = Op("loop", FALSE, FALSE, FALSE))
        ~> (last_op.op = "loop" /\ last_op.locked /\ last_op.executed)

\* C27: after a refresh has completed, every Snapshot get_system_stats returns is the
\* Snapshot the monitor stores (put there whole by one completed refresh, under the
\* lock) or the default one the monitor was created with
C27_AnswerIsAStoredSnapshot ==
    [][ (QueryStep("get_snapshot") /\ monitor.cycle_count >= 1)
            => \/ resp'.stats = monitor'.stats
               \/ resp'.stats = SystemMonitorNew(0, 0, 0).stats ]_vars

====
